---------------------------- MODULE Spec2Model ----------------------------
(***************************************************************************)
(* A model of generalized_additive_models/inspection/partial_effect.py:    *)
(* generate_X_grid, partial_effect and PartialEffectDisplay.from_estimator *)
(* acting on a fitted GAM and the caller's Term objects.                   *)
(*                                                                         *)
(* Floating point numbers are modelled as exact rationals extended with    *)
(* +inf, -inf and nan; the only rounding operation is the square root.     *)
(***************************************************************************)
EXTENDS Integers, Sequences, FiniteSets, TLC

(***************************************************************************)
(* Numbers: <<"fin", n, d>> is the rational n/d in lowest terms (d > 0),   *)
(* <<"inf", 1, 1>> and <<"inf", -1, 1>> are the infinities, <<"nan", 0, 1>>*)
(* is NaN.  The operations follow IEEE 754 on the special values.          *)
(***************************************************************************)
Abs(n) == IF n < 0 THEN -n ELSE n

RECURSIVE GCD(_, _)
GCD(a, b) == IF b = 0 THEN a ELSE GCD(b, a % b)

NaN == <<"nan", 0, 1>>
PInf == <<"inf", 1, 1>>
NInf == <<"inf", -1, 1>>

Q(n, d) ==
    LET s == IF d < 0 THEN -1 ELSE 1
        g == GCD(Abs(n), Abs(d))
    IN <<"fin", (s * n) \div g, (s * d) \div g>>

F(n) == <<"fin", n, 1>>

IsNaN(a) == a[1] = "nan"
IsInf(a) == a[1] = "inf"
IsFin(a) == a[1] = "fin"
Sign(a) == IF a[2] > 0 THEN 1 ELSE IF a[2] < 0 THEN -1 ELSE 0

FNeg(a) == IF IsNaN(a) THEN NaN ELSE <<a[1], -a[2], a[3]>>

FAdd(a, b) ==
    IF a[1] = "fin" /\ b[1] = "fin" /\ a[3] = b[3]
    THEN (IF a[3] = 1 THEN <<"fin", a[2] + b[2], 1>> ELSE Q(a[2] + b[2], a[3]))
    ELSE IF IsNaN(a) \/ IsNaN(b) THEN NaN
    ELSE IF IsInf(a) /\ IsInf(b) THEN (IF a[2] = b[2] THEN a ELSE NaN)
    ELSE IF IsInf(a) THEN a
    ELSE IF IsInf(b) THEN b
    ELSE LET g == GCD(a[3], b[3])
             l == (a[3] \div g) * b[3]
         IN Q(a[2] * (l \div a[3]) + b[2] * (l \div b[3]), l)

FSub(a, b) == FAdd(a, FNeg(b))

FMul(a, b) ==
    IF a[1] = "fin" /\ b[1] = "fin" /\ a[3] = 1 /\ b[3] = 1
    THEN <<"fin", a[2] * b[2], 1>>
    ELSE IF IsNaN(a) \/ IsNaN(b) THEN NaN
    ELSE IF IsInf(a) \/ IsInf(b)
         THEN (IF Sign(a) * Sign(b) = 0 THEN NaN
               ELSE <<"inf", Sign(a) * Sign(b), 1>>)
    ELSE LET g1 == GCD(Abs(a[2]), b[3])
             g2 == GCD(Abs(b[2]), a[3])
         IN Q((a[2] \div g1) * (b[2] \div g2), (a[3] \div g2) * (b[3] \div g1))

(* n1/d1 < n2/d2 for non-negative rationals, by continued fractions so that *)
(* no product of numerators and denominators is ever formed.               *)
RECURSIVE PosLt(_, _, _, _)
PosLt(n1, d1, n2, d2) ==
    LET q1 == n1 \div d1
        q2 == n2 \div d2
        r1 == n1 % d1
        r2 == n2 % d2
    IN IF q1 # q2 THEN q1 < q2
       ELSE IF r2 = 0 THEN FALSE
       ELSE IF r1 = 0 THEN TRUE
       ELSE PosLt(d2, r2, d1, r1)

FinLt(a, b) ==
    IF a[2] < 0 /\ b[2] >= 0 THEN TRUE
    ELSE IF a[2] >= 0 /\ b[2] < 0 THEN FALSE
    ELSE IF a[2] >= 0 THEN PosLt(a[2], a[3], b[2], b[3])
    ELSE PosLt(-b[2], b[3], -a[2], a[3])

(* a < b; every comparison with NaN is false. *)
FLt(a, b) ==
    IF IsNaN(a) \/ IsNaN(b) THEN FALSE
    ELSE IF IsInf(a) THEN a[2] < 0 /\ ~(IsInf(b) /\ b[2] < 0)
    ELSE IF IsInf(b) THEN b[2] > 0
    ELSE FinLt(a, b)

FLe(a, b) == ~IsNaN(a) /\ ~IsNaN(b) /\ (a = b \/ FLt(a, b))

FMin(a, b) == IF FLt(b, a) THEN b ELSE a
FMax(a, b) == IF FLt(a, b) THEN b ELSE a


(***************************************************************************)
(* np.sqrt: NaN for a negative argument; a non-negative rational is        *)
(* rounded down to a multiple of SqrtUlp (the model's rounding unit).      *)
(***************************************************************************)
SqrtScale == 4

RECURSIVE ISqrtBetween(_, _, _)
ISqrtBetween(n, lo, hi) ==
    IF lo >= hi THEN lo
    ELSE LET m == (lo + hi + 1) \div 2
         IN IF m * m <= n THEN ISqrtBetween(n, m, hi)
            ELSE ISqrtBetween(n, lo, m - 1)

ISqrt(n) == ISqrtBetween(n, 0, IF n < 46340 THEN n ELSE 46340)

IsSquare(n) == ISqrt(n) * ISqrt(n) = n

(* The least m making d * m a perfect square (d itself when none is small): *)
(* n/d = (n * m)/(d * m), whose root has the denominator sqrt(d * m).       *)
SquareMultiplier(d) ==
    IF \E m \in 1..10 : IsSquare(d * m)
    THEN CHOOSE m \in 1..10 : IsSquare(d * m) /\ \A k \in 1..(m - 1) : ~IsSquare(d * k)
    ELSE d

(* The denominator of the rounded square root of n/d. *)
SqrtDen(a) == ISqrt(a[3] * SquareMultiplier(a[3])) * SqrtScale

SqrtUlp(a) == Q(1, SqrtDen(a))

FSqrt(a) ==
    IF IsNaN(a) THEN NaN
    ELSE IF IsInf(a) THEN (IF a[2] > 0 THEN PInf ELSE NaN)
    ELSE IF a[2] < 0 THEN NaN
    ELSE Q(ISqrt(a[2] * SquareMultiplier(a[3]) * SqrtScale * SqrtScale), SqrtDen(a))

(***************************************************************************)
(* Arrays: a vector is a sequence of numbers, a matrix a sequence of rows. *)
(***************************************************************************)
RECURSIVE FSum(_)
FSum(v) == IF v = <<>> THEN F(0) ELSE FAdd(Head(v), FSum(Tail(v)))

Dot(a, b) == FSum([i \in 1..Len(a) |-> FMul(a[i], b[i])])

Column(M, j) == [r \in 1..Len(M) |-> M[r][j]]

Transpose(M, ncols) == [j \in 1..ncols |-> Column(M, j)]

(* A @ B, B having ncols columns. *)
MatMul(A, B, ncols) ==
    [r \in 1..Len(A) |-> [j \in 1..ncols |-> Dot(A[r], Column(B, j))]]

(* A @ v for a vector v. *)
MatVec(A, v) == [r \in 1..Len(A) |-> Dot(A[r], v)]

VecAdd(a, b) == [i \in 1..Len(a) |-> FAdd(a[i], b[i])]
VecSub(a, b) == [i \in 1..Len(a) |-> FSub(a[i], b[i])]
VecScale(c, a) == [i \in 1..Len(a) |-> FMul(c, a[i])]

RECURSIVE VecMin(_)
VecMin(v) == IF Len(v) = 1 THEN v[1] ELSE FMin(v[1], VecMin(Tail(v)))

RECURSIVE VecMax(_)
VecMax(v) == IF Len(v) = 1 THEN v[1] ELSE FMax(v[1], VecMax(Tail(v)))

(* arr.reshape(-1, 1) and arr.ravel() for a vector / a one-column matrix. *)
Reshape1(v) == [i \in 1..Len(v) |-> <<v[i]>>]
Ravel(M) == [i \in 1..Len(M) |-> M[i][1]]

(***************************************************************************)
(* np.linspace(start, stop, num): num samples start + i * step with        *)
(* step = (stop - start) / (num - 1); a single sample is start itself.     *)
(***************************************************************************)
FDivInt(a, k) == FMul(a, Q(1, k))

linspace(start, stop, num) ==
    IF num = 1 THEN <<start>>
    ELSE LET step == FDivInt(FSub(stop, start), num - 1)
         IN [i \in 1..num |-> FAdd(start, FMul(F(i - 1), step))]

(***************************************************************************)
(* utils.cartesian(arrays): the cartesian product of 1-D arrays, one row   *)
(* per combination, the last array varying fastest.                        *)
(***************************************************************************)
RECURSIVE cartesian(_)
cartesian(arrays) ==
    IF arrays = <<>> THEN << <<>> >>
    ELSE LET rest == cartesian(Tail(arrays))
             m == Len(rest)
         IN [r \in 1..(Len(arrays[1]) * m) |->
                <<arrays[1][((r - 1) \div m) + 1]>> \o rest[((r - 1) % m) + 1]]

(***************************************************************************)
(* np.meshgrid of the axes xi: one array per axis, here a function         *)
(* from index tuples to values.  With "ij" array j at index idx holds      *)
(* xi[j][idx[j]]; with "xy" the first two dimensions are swapped.          *)
(***************************************************************************)
IndexTuples(xi) ==
    {idx \in [1..Len(xi) -> 1..Len(xi[1])] :
        \A j \in 1..Len(xi) : idx[j] <= Len(xi[j])}

SwapXY(j, k) == IF k >= 2 /\ j = 1 THEN 2 ELSE IF k >= 2 /\ j = 2 THEN 1 ELSE j

np_meshgrid(xi, indexing) ==
    [j \in 1..Len(xi) |->
        [idx \in IndexTuples(xi) |->
            IF indexing = "ij" THEN xi[j][idx[j]]
            ELSE xi[j][idx[SwapXY(j, Len(xi))]]]]

(***************************************************************************)
(* Term objects (generalized_additive_models.terms).  feature is the       *)
(* 0-based column the term reads; a Tensor holds its Splines in terms.     *)
(* coef_ and coef_idx_ exist once the owning model has been fitted.        *)
(***************************************************************************)
TermObj(kind, fitted, feature, knot, categories, coef, idx, subterms) ==
    [kind |-> kind, fitted |-> fitted, feature |-> feature, knot |-> knot,
     categories_ |-> categories, coef_ |-> coef, coef_idx_ |-> idx,
     terms |-> subterms]

IsTerm(term) == term.kind # "NotATerm"

(* term._get_column(X, selector="feature"): the term's feature column. *)
get_column(term, X) ==
    IF term.kind = "Tensor"
    THEN [r \in 1..Len(X) |-> [i \in 1..Len(term.terms) |-> X[r][term.terms[i].feature + 1]]]
    ELSE Column(X, term.feature + 1)

(* term.set_params(feature=f) *)
set_params(term, f) == [term EXCEPT !.feature = f]

(***************************************************************************)
(* Return values and raised exceptions of generate_X_grid.                 *)
(***************************************************************************)
RetArray(g) == [status |-> "ok", kind |-> "array", grid |-> g, meshgrid |-> <<>>]
RetTuple(g, m) == [status |-> "ok", kind |-> "tuple", grid |-> g, meshgrid |-> m]
RetNone == [status |-> "ok", kind |-> "None", grid |-> <<>>, meshgrid |-> <<>>]
Raise(e) == [status |-> e, kind |-> "raise", grid |-> <<>>, meshgrid |-> <<>>]

(* Lines 41-43: the padded, evenly spaced grid over a feature column. *)
interval_grid_unpadded(X_data, extrapolation, num) ==
    Reshape1(linspace(VecMin(X_data), VecMax(X_data), num))

interval_grid(X_data, extrapolation, num) ==
    LET min_ == VecMin(X_data)
        max_ == VecMax(X_data)
        offset == FMul(FSub(max_, min_), extrapolation)
    IN Reshape1(linspace(FSub(min_, offset), FAdd(max_, offset), num))

(* Line 52: the cartesian grid and the "ij" meshgrid of the same axes. *)
tensor_grid_xy(linspaces) ==
    RetTuple(cartesian(linspaces), np_meshgrid(linspaces, "xy"))

tensor_grid(linspaces) ==
    RetTuple(cartesian(linspaces), np_meshgrid(linspaces, "ij"))

RECURSIVE generate_X_grid(_, _, _, _, _)
generate_X_grid(g, term, X, extrapolation, num) ==
    IF ~g.isGAM THEN Raise("TypeError")
    ELSE IF ~IsTerm(term) THEN Raise("TypeError")
    ELSE IF ~g.fitted THEN Raise("NotFittedError")
    ELSE IF ~term.fitted THEN Raise("NotFittedError")
    ELSE IF term.kind = "Intercept" THEN RetArray(<< <<F(1)>> >>)
    ELSE IF term.kind \in {"Linear", "Spline"}
         THEN RetArray(interval_grid(get_column(term, X), extrapolation, num))
    ELSE IF term.kind = "Categorical" THEN RetArray(Reshape1(term.categories_))
    ELSE IF term.kind = "Tensor"
         THEN tensor_grid([i \in 1..Len(term.terms) |->
                 Ravel(generate_X_grid(g, term.terms[i], X, extrapolation, num).grid)])
    ELSE RetNone

(***************************************************************************)
(* Links (gam._link): a bijection between the link scale and the response  *)
(* scale with its domain.  "Identity" is the identity on (-inf, inf);      *)
(* "Log" has domain (0, inf) and its inverse, the exponential, is taken in *)
(* base 2 and interpolated linearly between integers, which keeps it a     *)
(* strictly increasing bijection onto (0, inf) with rational values.       *)
(* "Inverse" is the reciprocal link 1/y on (0, inf), a decreasing          *)
(* bijection that is its own inverse.                                      *)
(***************************************************************************)
RECURSIVE Pow2(_)
Pow2(k) == IF k = 0 THEN 1 ELSE 2 * Pow2(k - 1)

FPow2(k) == IF k >= 0 THEN F(Pow2(k)) ELSE Q(1, Pow2(-k))

Exp2(z) ==
    IF IsNaN(z) THEN NaN
    ELSE IF IsInf(z) THEN (IF z[2] > 0 THEN PInf ELSE F(0))
    ELSE LET k == z[2] \div z[3]
         IN FMul(FPow2(k), FAdd(F(1), FSub(z, F(k))))

(* The k with 2^k <= y < 2^(k+1), for a rational y > 0. *)
RECURSIVE Log2Floor(_, _)
Log2Floor(y, k) ==
    IF FLt(y, FPow2(k)) THEN Log2Floor(y, k - 1)
    ELSE IF FLe(FPow2(k + 1), y) THEN Log2Floor(y, k + 1)
    ELSE k

Log2(y) ==
    IF IsNaN(y) THEN NaN
    ELSE IF IsInf(y) THEN (IF y[2] > 0 THEN PInf ELSE NaN)
    ELSE IF y[2] < 0 THEN NaN
    ELSE IF y[2] = 0 THEN NInf
    ELSE LET k == Log2Floor(y, 0)
         IN FAdd(F(k), FSub(FMul(y, FPow2(-k)), F(1)))

(* 1/z, with 1/0 = inf and 1/inf = 0. *)
Reciprocal(z) ==
    IF IsNaN(z) THEN NaN
    ELSE IF IsInf(z) THEN F(0)
    ELSE IF z[2] = 0 THEN PInf
    ELSE Q(z[3], z[2])

inverse_link(l, z) ==
    IF l = "Log" THEN Exp2(z) ELSE IF l = "Inverse" THEN Reciprocal(z) ELSE z
link(l, y) ==
    IF l = "Log" THEN Log2(y) ELSE IF l = "Inverse" THEN Reciprocal(y) ELSE y
domain(l) == IF l \in {"Log", "Inverse"} THEN <<F(0), PInf>> ELSE <<NInf, PInf>>

(* A function applied elementwise to a vector. *)
inverse_link_vec(l, v) == [i \in 1..Len(v) |-> inverse_link(l, v[i])]
link_vec(l, v) == [i \in 1..Len(v) |-> link(l, v[i])]

(***************************************************************************)
(* term.transform(X): the term's basis expansion of its feature column(s). *)
(* Linear is the identity, Intercept a column of ones, Categorical the     *)
(* indicators of the fitted levels, Spline a B-spline basis (here of       *)
(* degree 0 with one interior knot), Tensor the products of the            *)
(* expansions of its sub-terms.                                            *)
(***************************************************************************)
Indicator(b) == IF b THEN F(1) ELSE F(0)

Kron(a, b) ==
    [i \in 1..(Len(a) * Len(b)) |->
        FMul(a[((i - 1) \div Len(b)) + 1], b[((i - 1) % Len(b)) + 1])]

RECURSIVE KronAll(_)
KronAll(rows) == IF Len(rows) = 1 THEN rows[1] ELSE Kron(rows[1], KronAll(Tail(rows)))

basis_row(term, x) ==
    IF term.kind = "Linear" THEN <<x>>
    ELSE IF term.kind = "Spline"
         THEN <<Indicator(FLt(x, term.knot)), Indicator(~FLt(x, term.knot))>>
    ELSE IF term.kind = "Categorical"
         THEN [c \in 1..Len(term.categories_) |-> Indicator(x = term.categories_[c])]
    ELSE <<F(1)>>

transform(term, X) ==
    IF term.kind = "Tensor"
    THEN [r \in 1..Len(X) |->
            KronAll([i \in 1..Len(term.terms) |->
                basis_row(term.terms[i], X[r][term.terms[i].feature + 1])])]
    ELSE IF term.kind = "Intercept" THEN [r \in 1..Len(X) |-> <<F(1)>>]
    ELSE [r \in 1..Len(X) |-> basis_row(term, X[r][term.feature + 1])]

(***************************************************************************)
(* The credible interval (lines 146-156 and 306-316).                      *)
(***************************************************************************)
(* covariance[np.ix_(idx, idx)] *)
ix_(covariance, idx) ==
    [i \in 1..Len(idx) |-> [j \in 1..Len(idx) |-> covariance[idx[i]][idx[j]]]]

(* np.sum((X @ V) * X, axis=1) *)
row_variance_no_V(X, V) == [r \in 1..Len(X) |-> Dot(X[r], X[r])]

row_variance(X, V) ==
    LET XV == MatMul(X, V, Len(V))
    IN [r \in 1..Len(X) |-> FSum([j \in 1..Len(V) |-> FMul(XV[r][j], X[r][j])])]

(* np.diag(X @ V @ X.T) *)
diag_XVXt(X, V) ==
    LET XV == MatMul(X, V, Len(V))
        Xt == Transpose(X, Len(V))
    IN [r \in 1..Len(X) |-> Dot(XV[r], Column(Xt, r))]

sqrt_vec(v) == [r \in 1..Len(v) |-> FSqrt(v[r])]

(* assert np.all(stdev_array > 0) *)
all_positive(stdev_array) ==
    \A r \in 1..Len(stdev_array) : FLt(F(0), stdev_array[r])

(* assert np.allclose(stdev_array**2, diag): the tolerance of np.allclose   *)
(* covers the rounding of the square root, here one rounding unit.          *)
allclose_squared(stdev_array, diag) ==
    \A r \in 1..Len(diag) :
        LET s == stdev_array[r]
            u == FAdd(s, SqrtUlp(diag[r]))
        IN /\ IsFin(s) /\ IsFin(diag[r])
           /\ FLe(FMul(s, s), diag[r])
           /\ FLt(diag[r], FMul(u, u))

(***************************************************************************)
(* sklearn's check_scalar(x, name, target_type=Real, min_val=0,            *)
(* include_boundaries="neither"): TypeError unless x is a Real, ValueError *)
(* if x <= 0.  The comparison is false for NaN and there is no upper       *)
(* bound, so NaN and +inf pass.                                            *)
(***************************************************************************)
IsReal(x) == x[1] \in {"fin", "inf", "nan"}

check_scalar(x) ==
    IF ~IsReal(x) THEN "TypeError"
    ELSE IF FLe(x, F(0)) THEN "ValueError"
    ELSE "ok"

(***************************************************************************)
(* copy.deepcopy(term): a new object equal to term that shares nothing     *)
(* with it.  shared tells whether a mutation of the result is a mutation   *)
(* of the caller's object.                                                 *)
(***************************************************************************)
alias(term) == [obj |-> term, shared |-> TRUE]

deepcopy(term) == [obj |-> term, shared |-> FALSE]

(* The bounds predictions -/+ standard_deviations * stdev_array. *)
interval_bounds_swapped(predictions, standard_deviations, stdev_array) ==
    [y_low |-> VecAdd(predictions, VecScale(standard_deviations, stdev_array)),
     y_high |-> VecSub(predictions, VecScale(standard_deviations, stdev_array))]

interval_bounds(predictions, standard_deviations, stdev_array) ==
    [y_low |-> VecSub(predictions, VecScale(standard_deviations, stdev_array)),
     y_high |-> VecAdd(predictions, VecScale(standard_deviations, stdev_array))]

(* for i, spline in enumerate(term): spline.set_params(feature=i) *)
relabel_subterms(term) ==
    [term EXCEPT !.terms = [i \in 1..Len(term.terms) |-> set_params(term.terms[i], i - 1)]]

(* term.set_params(feature=0), or the loop above for a Tensor. *)
relabel(term) ==
    IF term.kind = "Tensor" THEN relabel_subterms(term) ELSE set_params(term, 0)

(***************************************************************************)
(* Results.  A returned bundle (the Bunch of partial_effect, the display   *)
(* of from_estimator) or a raised exception; steps lists the stages of the *)
(* computation that ran.  y_partial_residuals is an array, a one-element   *)
(* tuple holding an array, or None.                                        *)
(***************************************************************************)
PyNone == [kind |-> "None", v |-> <<>>]
PyArray(v) == [kind |-> "array", v |-> v]
PyTuple1(v) == [kind |-> "tuple", v |-> v]

Raised(e, steps) ==
    [status |-> e, x |-> <<>>, y |-> <<>>, y_low |-> <<>>, y_high |-> <<>>,
     x_obs |-> <<>>, y_partial_residuals |-> PyNone, meshgrid |-> <<>>,
     steps |-> steps]

Returned(x, y, y_low, y_high, x_obs, ypr, meshgrid, steps) ==
    [status |-> "ok", x |-> x, y |-> y, y_low |-> y_low, y_high |-> y_high,
     x_obs |-> x_obs, y_partial_residuals |-> ypr, meshgrid |-> meshgrid,
     steps |-> steps]

NoResult == Raised("none", <<>>)

(* What a call leaves behind: its outcome, the caller's term object after  *)
(* the call, and the private working copy (copied = FALSE: none was made). *)
Outcome(res, callerTerm, copied, workTerm) ==
    [result |-> res, term |-> callerTerm, copied |-> copied, work |-> workTerm]

Range(seq) == {seq[i] : i \in 1..Len(seq)}

(* extrapolation=0.01 *)
Extrapolation == Q(1, 100)

(* num=100 in partial_effect and num=2**8 in from_estimator, scaled down. *)
NumPartialEffect == 3
NumFromEstimator == 4

StepsAll == <<"deepcopy", "transform", "generate_X_grid", "set_params", "transform">>

(***************************************************************************)
(* partial_effect(gam, term, standard_deviations, edges, linear_scale)     *)
(***************************************************************************)
partial_effect(g, heap, ti, standard_deviations, linear_scale) ==
    LET term == heap[ti]
        in_model == ti \in Range(g.terms)
    IN
    IF ~g.isGAM THEN Outcome(Raised("TypeError", <<>>), term, FALSE, term)
    ELSE IF term.kind \notin {"Spline", "Linear"}
         THEN Outcome(Raised("TypeError", <<>>), term, FALSE, term)
    ELSE IF ~g.fitted THEN Outcome(Raised("NotFittedError", <<>>), term, FALSE, term)
    ELSE IF ~term.fitted THEN Outcome(Raised("NotFittedError", <<>>), term, FALSE, term)
    ELSE IF ~in_model THEN Outcome(Raised("ValueError", <<>>), term, FALSE, term)
    ELSE IF check_scalar(standard_deviations) # "ok"
         THEN Outcome(Raised(check_scalar(standard_deviations), <<>>), term, FALSE, term)
    ELSE
    LET c == deepcopy(term)
        data == get_column(c.obj, g.X_)
        X_original_transformed == transform(c.obj, g.X_)
        ret == generate_X_grid(g, c.obj, g.X_, Extrapolation, NumPartialEffect)
        X_smooth == ret.grid
        meshgrid == ret.meshgrid
        term2 == relabel(c.obj)
        callerTerm == IF c.shared THEN term2 ELSE term
        X == transform(term2, X_smooth)
        linear_predictions == MatVec(X, term2.coef_)
        predictions == linear_predictions
        V == ix_(g.covariance, term2.coef_idx_)
        stdev_array == sqrt_vec(row_variance(X, V))
        residuals == VecSub(g.y_, inverse_link_vec(g.link, MatVec(g.model_matrix_, g.coef_)))
        bounds == interval_bounds(predictions, standard_deviations, stdev_array)
        y_low == bounds.y_low
        y_high == bounds.y_high
        term_effect == MatVec(X_original_transformed, term2.coef_)
        model_predictions == inverse_link_vec(g.link, term_effect)
    IN IF ~all_positive(stdev_array)
       THEN Outcome(Raised("AssertionError", StepsAll), callerTerm, TRUE, term2)
       ELSE IF ~allclose_squared(stdev_array, diag_XVXt(X, V))
       THEN Outcome(Raised("AssertionError", StepsAll), callerTerm, TRUE, term2)
       ELSE IF linear_scale
       THEN Outcome(Returned(X_smooth, predictions, y_low, y_high, data,
                             PyArray(VecAdd(term_effect, residuals)), meshgrid, StepsAll),
                    callerTerm, TRUE, term2)
       ELSE Outcome(Returned(X_smooth,
                             inverse_link_vec(g.link, predictions),
                             inverse_link_vec(g.link, y_low),
                             inverse_link_vec(g.link, y_high),
                             data,
                             PyTuple1(VecAdd(model_predictions, residuals)),
                             meshgrid, StepsAll),
                    callerTerm, TRUE, term2)

(***************************************************************************)
(* gam.predict(X): the inverse link of the linear predictor, the model     *)
(* matrix of X (the expansions of the model's terms side by side) times    *)
(* the coefficients.  gam.terms refers to the caller's term objects.       *)
(***************************************************************************)
RECURSIVE Flatten(_)
Flatten(seqs) == IF seqs = <<>> THEN <<>> ELSE Head(seqs) \o Flatten(Tail(seqs))

model_matrix(g, heap, X) ==
    [r \in 1..Len(X) |->
        Flatten([k \in 1..Len(g.terms) |-> transform(heap[g.terms[k]], <<X[r]>>)[1]])]

predict(g, heap, X) == inverse_link_vec(g.link, MatVec(model_matrix(g, heap, X), g.coef_))

(* np.sqrt(np.finfo(float).eps) = 2^-26 *)
Epsilon == Q(1, Pow2(26))

(* np.squeeze of a 2-D grid: a one-column grid becomes a vector. *)
squeeze(M) == IF \A r \in 1..Len(M) : Len(M[r]) = 1 THEN Ravel(M) ELSE M

(* The function the display applies: the inverse link for True, the        *)
(* identity for None and False, else the caller's callable (here the       *)
(* negation lambda x: -x).                                                 *)
select_transformation(transformation) ==
    IF transformation = "True" THEN "inverse_link"
    ELSE IF transformation \in {"None", "False"} THEN "identity"
    ELSE transformation

apply_transformation(fn, l, v) ==
    [i \in 1..Len(v) |->
        IF fn = "inverse_link" THEN inverse_link(l, v[i])
        ELSE IF fn = "identity" THEN v[i]
        ELSE FNeg(v[i])]

(***************************************************************************)
(* PartialEffectDisplay.from_estimator(gam, term, X, y, ...)               *)
(***************************************************************************)
from_estimator(g, heap, ti, X, y, standard_deviations, transformation, residuals) ==
    LET term == heap[ti]
        in_model == ti \in Range(g.terms)
    IN
    IF ~g.isGAM THEN Outcome(Raised("TypeError", <<>>), term, FALSE, term)
    ELSE IF ~IsTerm(term) THEN Outcome(Raised("TypeError", <<>>), term, FALSE, term)
    ELSE IF ~g.fitted THEN Outcome(Raised("NotFittedError", <<>>), term, FALSE, term)
    ELSE IF ~term.fitted THEN Outcome(Raised("NotFittedError", <<>>), term, FALSE, term)
    ELSE IF ~in_model THEN Outcome(Raised("ValueError", <<>>), term, FALSE, term)
    ELSE IF check_scalar(standard_deviations) # "ok"
         THEN Outcome(Raised(check_scalar(standard_deviations), <<>>), term, FALSE, term)
    ELSE
    LET c == deepcopy(term)
        X_transformed == transform(c.obj, X)
        x_obs == get_column(c.obj, X)
        ret == generate_X_grid(g, c.obj, g.X_, Extrapolation, NumFromEstimator)
        X_smooth == ret.grid
        term2 == relabel(c.obj)
        callerTerm == IF c.shared THEN term2 ELSE term
        X_smooth_transformed == transform(term2, X_smooth)
        linear_predictions == MatVec(X_smooth_transformed, term2.coef_)
        V == ix_(g.covariance, term2.coef_idx_)
        stdev_array == sqrt_vec(row_variance(X_smooth_transformed, V))
        fn == select_transformation(transformation)
        low == domain(g.link)[1]
        high == domain(g.link)[2]
        y_noboundary == [i \in 1..Len(y) |->
                            FMin(FMax(y[i], FAdd(low, Epsilon)), FSub(high, Epsilon))]
        heap2 == [heap EXCEPT ![ti] = callerTerm]
        res == VecSub(link_vec(g.link, y_noboundary), link_vec(g.link, predict(g, heap2, X)))
        y_partial_residuals ==
            apply_transformation(fn, g.link, VecAdd(MatVec(X_transformed, term2.coef_), res))
        bounds == interval_bounds(linear_predictions, standard_deviations, stdev_array)
    IN IF ~all_positive(stdev_array)
       THEN Outcome(Raised("AssertionError", StepsAll), callerTerm, TRUE, term2)
       ELSE IF ~allclose_squared(stdev_array, diag_XVXt(X_smooth_transformed, V))
       THEN Outcome(Raised("AssertionError", StepsAll), callerTerm, TRUE, term2)
       ELSE Outcome(Returned(squeeze(X_smooth),
                             apply_transformation(fn, g.link, linear_predictions),
                             apply_transformation(fn, g.link, bounds.y_low),
                             apply_transformation(fn, g.link, bounds.y_high),
                             x_obs,
                             IF residuals THEN PyArray(y_partial_residuals) ELSE PyNone,
                             <<>>, StepsAll \o <<"transform">>),
                    callerTerm, TRUE, term2)

(***************************************************************************)
(* The fitted models and the caller's objects.                             *)
(***************************************************************************)
IntVec(v) == [i \in 1..Len(v) |-> F(v[i])]
IntMat(M) == [r \in 1..Len(M) |-> IntVec(M[r])]
Select(v, idx) == [i \in 1..Len(idx) |-> v[idx[i]]]

(* Training inputs: column 0 and column 1 are continuous, column 2 holds a *)
(* category.  In DataA column 1 is centred on zero.                        *)
DataA == IntMat(<< <<0, -1, 0>>, <<1, 1, 1>>, <<2, 0, 0>> >>)
DataB == IntMat(<< <<0, 1, 0>>, <<2, 2, 1>>, <<1, 3, 1>> >>)
Datasets == {DataA, DataB}

(* Training targets; 0 lies on the boundary of the Log link's domain. *)
Targets == IntVec(<<0, 3, 1>>)

Coefficients == IntVec(<<1, 2, -1, 1, 1, -2, 1, 0, -1, 2>>)
NCoef == Len(Coefficients)

(* Coefficient covariances: the identity, one of rank one (g g^T), their   *)
(* sum, and a diagonal matrix with negative entries, as a covariance that  *)
(* lost positive semi-definiteness would have.                             *)
CovDirection == <<1, 1, 1, 0, 1, -1, 0, 1, 1, 1>>
CovIdentity == [i \in 1..NCoef |-> [j \in 1..NCoef |-> F(IF i = j THEN 1 ELSE 0)]]
CovRankOne == [i \in 1..NCoef |-> [j \in 1..NCoef |-> F(CovDirection[i] * CovDirection[j])]]
CovMixed ==
    [i \in 1..NCoef |-> [j \in 1..NCoef |->
        F((IF i = j THEN 1 ELSE 0) + CovDirection[i] * CovDirection[j])]]
CovIndefinite ==
    [i \in 1..NCoef |-> [j \in 1..NCoef |->
        F(IF i # j THEN 0 ELSE IF i % 2 = 0 THEN -1 ELSE 1)]]
Covariances == {CovIdentity, CovRankOne, CovMixed, CovIndefinite}

NoSub == <<>>
SubSpline(feature, knot) == TermObj("Spline", TRUE, feature, F(knot), <<>>, <<>>, <<>>, NoSub)

(* The caller's objects: 1..5 are the terms of the model (Intercept,       *)
(* Linear(1), Spline(0), Categorical(2), Tensor(Spline(1), Spline(0))),    *)
(* 6 is a fitted Spline of another model, 7 an unfitted Linear, 8 is not a *)
(* Term (a feature name).                                                  *)
InitialTerms ==
    << TermObj("Intercept", TRUE, 0, F(0), <<>>, Select(Coefficients, <<1>>), <<1>>, NoSub),
       TermObj("Linear", TRUE, 1, F(0), <<>>, Select(Coefficients, <<2>>), <<2>>, NoSub),
       TermObj("Spline", TRUE, 0, F(1), <<>>, Select(Coefficients, <<3, 4>>), <<3, 4>>, NoSub),
       TermObj("Categorical", TRUE, 2, F(0), IntVec(<<0, 1>>),
               Select(Coefficients, <<5, 6>>), <<5, 6>>, NoSub),
       TermObj("Tensor", TRUE, 0, F(0), <<>>, Select(Coefficients, <<7, 8, 9, 10>>),
               <<7, 8, 9, 10>>, <<SubSpline(1, 1), SubSpline(0, 1)>>),
       TermObj("Spline", TRUE, 1, F(2), <<>>, IntVec(<<1, 1>>), <<1, 2>>, NoSub),
       TermObj("Linear", FALSE, 1, F(0), <<>>, <<>>, <<>>, NoSub),
       TermObj("NotATerm", FALSE, 0, F(0), <<>>, <<>>, <<>>, NoSub) >>

ModelTerms == <<1, 2, 3, 4, 5>>

FittedGAM(l, X, covariance) ==
    LET g0 == [isGAM |-> TRUE, fitted |-> TRUE, link |-> l, X_ |-> X, y_ |-> Targets,
               coef_ |-> Coefficients, covariance |-> covariance, terms |-> ModelTerms]
    IN [isGAM |-> TRUE, fitted |-> TRUE, link |-> l, X_ |-> X, y_ |-> Targets,
        coef_ |-> Coefficients, covariance |-> covariance, terms |-> ModelTerms,
        model_matrix_ |-> model_matrix(g0, InitialTerms, X)]

Links == {"Identity", "Log", "Inverse"}

FittedModels ==
    {FittedGAM(l, X, covariance) :
        l \in Links, X \in Datasets, covariance \in Covariances}

(* The gam argument of a call: the fitted model, the same model before     *)
(* fitting, or an object that is no GAM.                                   *)
GamArgs == {"gam", "unfitted", "not_gam"}
GamArg(a, g) ==
    IF a = "gam" THEN g
    ELSE IF a = "unfitted" THEN [g EXCEPT !.fitted = FALSE]
    ELSE [g EXCEPT !.isGAM = FALSE]

(* standard_deviations: integers -1..MaxSD, +inf, NaN and a non-number. *)
MaxSD == 2
NotAReal == <<"str", 0, 1>>
StandardDeviations == {F(k) : k \in -1..MaxSD} \cup {PInf, NaN, NotAReal}

Transformations == {"None", "True", "negate"}

(***************************************************************************)
(* State: the fitted model, the caller's objects, the call made last with  *)
(* its outcome, and the working copy that call made.                       *)
(***************************************************************************)
VARIABLES gam, terms, call, result, work, repeats

vars == <<gam, terms, call, result, work, repeats>>

(* How often the caller repeats a call before dropping its result. *)
MaxRepeats == 1

NoWork == [copied |-> FALSE, term |-> InitialTerms[8]]

Call(fn, a, ti, sd, linear_scale, transformation, residuals) ==
    [fn |-> fn, gam |-> a, term |-> ti, standard_deviations |-> sd,
     linear_scale |-> linear_scale, transformation |-> transformation,
     residuals |-> residuals]

NoCall == Call("none", "gam", 1, F(1), TRUE, "None", FALSE)

Init ==
    /\ gam \in FittedModels
    /\ terms = InitialTerms
    /\ call = NoCall
    /\ result = NoResult
    /\ work = NoWork
    /\ repeats = 0

Perform(c, o) ==
    /\ call' = c
    /\ result' = o.result
    /\ terms' = [terms EXCEPT ![c.term] = o.term]
    /\ work' = [copied |-> o.copied, term |-> o.work]
    /\ repeats' = IF result.status = "none" THEN 0 ELSE repeats + 1
    /\ UNCHANGED gam

(* The calls of partial_effect: any term object of the caller, any        *)
(* standard_deviations, either scale.                                      *)
PartialEffectCalls ==
    {Call("partial_effect", a, ti, sd, linear_scale, "None", FALSE) :
        a \in {"gam"}, ti \in 1..Len(InitialTerms), sd \in StandardDeviations,
        linear_scale \in BOOLEAN}
    \cup {Call("partial_effect", a, 2, sd, TRUE, "None", FALSE) :
        a \in GamArgs \ {"gam"}, sd \in StandardDeviations}

(* The calls of from_estimator, with the training data as X and y.  The    *)
(* Intercept is left out: its _get_column and set_params are not part of   *)
(* the source.                                                             *)
FromEstimatorCalls ==
    {Call("from_estimator", a, ti, sd, FALSE, transformation, residuals) :
        a \in {"gam"}, ti \in 2..Len(InitialTerms), sd \in StandardDeviations,
        transformation \in Transformations, residuals \in BOOLEAN}
    \cup {Call("from_estimator", a, 2, sd, FALSE, "None", FALSE) :
        a \in GamArgs \ {"gam"}, sd \in StandardDeviations}

(* The calls the caller may make now: any call, or, while it holds the     *)
(* result of a call, that same call again.                                 *)
Enabled(calls) ==
    IF result.status = "none" THEN calls
    ELSE IF repeats < MaxRepeats THEN calls \cap {call}
    ELSE {}

PartialEffect ==
    \E c \in Enabled(PartialEffectCalls) :
        Perform(c, partial_effect(GamArg(c.gam, gam), terms, c.term,
                                  c.standard_deviations, c.linear_scale))

FromEstimator ==
    \E c \in Enabled(FromEstimatorCalls) :
        Perform(c, from_estimator(GamArg(c.gam, gam), terms, c.term, gam.X_, gam.y_,
                                  c.standard_deviations, c.transformation, c.residuals))

(* The caller drops the result. *)
Discard ==
    /\ result.status # "none"
    /\ call' = NoCall
    /\ result' = NoResult
    /\ work' = NoWork
    /\ repeats' = 0
    /\ UNCHANGED <<gam, terms>>

Next == PartialEffect \/ FromEstimator \/ Discard

Spec == Init /\ [][Next]_vars

(***************************************************************************)
(* generate_X_grid called on its own: any term object, any X, a range of   *)
(* extrapolation and num.                                                  *)
(***************************************************************************)
MaxNum == 5
MaxTensor == 2

(* One column with the range [0, 10], one of zero range. *)
DataC == IntMat(<< <<0, 3, 0>>, <<10, 3, 1>>, <<5, 3, 1>> >>)
GridData == {DataA, DataB, DataC}
Extrapolations == {F(0), Q(1, 10), Q(1, 100)}

TensorOf(features) ==
    TermObj("Tensor", TRUE, 0, F(0), <<>>, <<>>, <<>>,
            [i \in 1..Len(features) |-> SubSpline(features[i], 1)])

GridTerms ==
    {InitialTerms[1], InitialTerms[4], InitialTerms[7], InitialTerms[8]}
    \cup {TermObj(kind, TRUE, f, F(1), <<>>, <<>>, <<>>, NoSub) :
            kind \in {"Linear", "Spline"}, f \in 0..2}
    \cup {TensorOf(features) : features \in UNION {[1..k -> 0..1] : k \in 1..MaxTensor}}
    \cup {TermObj("Other", TRUE, 0, F(0), <<>>, <<>>, <<>>, NoSub)}

GridCall(fn, a, term, X, extrapolation, num) ==
    [fn |-> fn, gam |-> a, term |-> term, X |-> X, extrapolation |-> extrapolation,
     num |-> num]

NoGridCall == GridCall("none", "gam", InitialTerms[8], DataA, F(0), 1)

GridCalls ==
    {GridCall("generate_X_grid", a, term, X, extrapolation, num) :
        a \in {"gam"}, term \in GridTerms, X \in GridData,
        extrapolation \in Extrapolations, num \in 1..MaxNum}
    \cup {GridCall("generate_X_grid", a, InitialTerms[2], DataA, F(0), 1) :
        a \in GamArgs \ {"gam"}}

InitGrid ==
    /\ gam = FittedGAM("Identity", DataA, CovIdentity)
    /\ terms = InitialTerms
    /\ call = NoGridCall
    /\ result = Raise("none")
    /\ work = NoWork
    /\ repeats = 0

GenerateXGrid ==
    /\ result.status = "none"
    /\ \E c \in GridCalls :
        /\ call' = c
        /\ result' = generate_X_grid(GamArg(c.gam, gam), c.term, c.X, c.extrapolation, c.num)
        /\ UNCHANGED <<gam, terms, work, repeats>>

DiscardGrid ==
    /\ result.status # "none"
    /\ call' = NoGridCall
    /\ result' = Raise("none")
    /\ UNCHANGED <<gam, terms, work, repeats>>

NextGrid == GenerateXGrid \/ DiscardGrid

SpecGrid == InitGrid /\ [][NextGrid]_vars

(***************************************************************************)
(* The interval computation on its own (lines 154-156 and 166-167): any    *)
(* design matrix X of two rows, any symmetric V, positive or not.          *)
(***************************************************************************)
MaxCov == 2
DesignEntries == {-1, 0, 2}
DesignMatrices == {IntMat(M) : M \in [1..2 -> [1..2 -> DesignEntries]]}
SymmetricMatrices ==
    {IntMat(<< <<a, b>>, <<b, d>> >>) : a \in 0..MaxCov, d \in 0..MaxCov, b \in -MaxCov..MaxCov}
Predictions == IntVec(<<1, -1>>)

VarCall(fn, X, V, sd) == [fn |-> fn, X |-> X, V |-> V, standard_deviations |-> sd]
NoVarCall == VarCall("none", <<>>, <<>>, F(1))
NoVarResult ==
    [status |-> "none", variance |-> <<>>, stdev_array |-> <<>>, y_low |-> <<>>,
     y_high |-> <<>>]

(* stdev_array, the two assertions and the bounds, as in both functions. *)
interval(X, V, predictions, standard_deviations) ==
    LET variance == row_variance(X, V)
        stdev_array == sqrt_vec(variance)
        bounds == interval_bounds(predictions, standard_deviations, stdev_array)
    IN IF ~all_positive(stdev_array) \/ ~allclose_squared(stdev_array, diag_XVXt(X, V))
       THEN [status |-> "AssertionError", variance |-> variance,
             stdev_array |-> stdev_array, y_low |-> <<>>, y_high |-> <<>>]
       ELSE [status |-> "ok", variance |-> variance, stdev_array |-> stdev_array,
             y_low |-> bounds.y_low, y_high |-> bounds.y_high]

InitVar ==
    /\ gam = FittedGAM("Identity", DataA, CovIdentity)
    /\ terms = InitialTerms
    /\ call = NoVarCall
    /\ result = NoVarResult
    /\ work = NoWork
    /\ repeats = 0

Interval ==
    /\ result.status = "none"
    /\ \E X \in DesignMatrices, V \in SymmetricMatrices, k \in 1..MaxSD :
        /\ call' = VarCall("interval", X, V, F(k))
        /\ result' = interval(X, V, Predictions, F(k))
        /\ UNCHANGED <<gam, terms, work, repeats>>

DiscardVar ==
    /\ result.status # "none"
    /\ call' = NoVarCall
    /\ result' = NoVarResult
    /\ UNCHANGED <<gam, terms, work, repeats>>

NextVar == Interval \/ DiscardVar

SpecVar == InitVar /\ [][NextVar]_vars

(***************************************************************************)
(* Properties of partial_effect and from_estimator (specification Spec).   *)
(***************************************************************************)
PositiveFinite(sd) == IsReal(sd) /\ IsFin(sd) /\ sd[2] > 0

VecLe(a, b) == Len(a) = Len(b) /\ \A i \in 1..Len(a) : FLe(a[i], b[i])
VecLt(a, b) == Len(a) = Len(b) /\ \A i \in 1..Len(a) : FLt(a[i], b[i])

(* The other arguments of the last call are valid ones: the fitted model   *)
(* and one of its terms of a kind the function takes.                      *)
OtherArgumentsValid ==
    /\ call.fn \in {"partial_effect", "from_estimator"}
    /\ call.gam = "gam"
    /\ call.term \in Range(ModelTerms)
    /\ call.fn = "partial_effect" => terms[call.term].kind \in {"Spline", "Linear"}

(* C1: a standard_deviations that is not a strictly positive finite real   *)
(* is rejected with an invalid-argument error (ValueError or TypeError)    *)
(* before the term is copied, a grid generated or a transform evaluated.   *)
C1_InvalidSDRejectedAtBoundary ==
    (OtherArgumentsValid /\ ~PositiveFinite(call.standard_deviations))
        => /\ result.status \in {"ValueError", "TypeError"}
           /\ ~work.copied
           /\ result.steps = <<>>

(* C2: every call leaves the caller's term objects and the model as they   *)
(* were, and a call repeated with the same inputs returns the same result. *)
C2_CallerObjectsUnchanged ==
    [][/\ terms' = terms
       /\ gam' = gam
       /\ (call.fn # "none" /\ call' = call) => result' = result]_vars

(* A call returned, relabelled its private copy, and was repeated, on a    *)
(* term whose feature is not 0.                                            *)
C2_Witness ==
    /\ repeats >= 1
    /\ result.status = "ok"
    /\ work.copied
    /\ terms[call.term].kind = "Linear"
    /\ terms[call.term].feature # 0
    /\ work.term.feature = 0

(* The mapping the last call applied to y, y_low and y_high. *)
AppliedMapping ==
    IF call.fn = "partial_effect"
    THEN (IF call.linear_scale THEN "identity" ELSE "inverse_link")
    ELSE select_transformation(call.transformation)

SamplePoints == {Q(n, 2) : n \in -4..4}

Nondecreasing(fn, l) ==
    \A a, b \in SamplePoints :
        FLe(a, b) => FLe(apply_transformation(fn, l, <<a>>)[1],
                         apply_transformation(fn, l, <<b>>)[1])

Ordered == VecLe(result.y_low, result.y) /\ VecLe(result.y, result.y_high)

(* C3 as stated: every returned result has y_low <= y <= y_high on every   *)
(* row, for any valid positive standard_deviations and any transformation. *)
C3_OrderedForEveryTransformation ==
    (result.status = "ok" /\ PositiveFinite(call.standard_deviations)) => Ordered

(* C3 amended: every returned result has y_low <= y <= y_high on every row *)
(* for any valid positive standard_deviations, when the mapping applied to *)
(* the three fields is nondecreasing.                                      *)
C3_OrderedForNondecreasingMapping ==
    (/\ result.status = "ok"
     /\ PositiveFinite(call.standard_deviations)
     /\ Nondecreasing(AppliedMapping, gam.link)) => Ordered

(* A display on the response scale of a Log model, with distinct bounds. *)
C3_Witness ==
    /\ result.status = "ok"
    /\ call.fn = "from_estimator"
    /\ call.transformation = "True"
    /\ gam.link = "Log"
    /\ PositiveFinite(call.standard_deviations)
    /\ Ordered
    /\ result.y_low # result.y_high

(* C4: partial_effect returns a result for a fitted Spline, Linear,        *)
(* Categorical or Tensor term of the model and a valid standard_deviations *)
(* (a call that fails the assertion on the row variances aside).           *)
C4_ResultForEveryTermKind ==
    (/\ call.fn = "partial_effect"
     /\ call.gam = "gam"
     /\ call.term \in Range(ModelTerms)
     /\ terms[call.term].kind \in {"Spline", "Linear", "Categorical", "Tensor"}
     /\ PositiveFinite(call.standard_deviations)
     /\ result.status # "AssertionError") => result.status = "ok"

(* The link-scale partial residuals term_design(X) . coef_ + res with      *)
(* res = link(y_clamped) - link(prediction), and the link-scale bundle.    *)
LinkScaleDisplay ==
    from_estimator(gam, terms, call.term, gam.X_, gam.y_, call.standard_deviations,
                   "None", TRUE).result

LinkScaleBundle ==
    IF call.fn = "partial_effect"
    THEN partial_effect(gam, terms, call.term, call.standard_deviations, TRUE).result
    ELSE LinkScaleDisplay

(* C6: on the response scale y, y_low, y_high and the partial residuals    *)
(* are each the inverse link of the link-scale quantity, the partial       *)
(* residuals being a plain array as the other fields are.                  *)
C6_SameTransformationOnEveryField ==
    (/\ result.status = "ok"
     /\ PositiveFinite(call.standard_deviations)
     /\ \/ call.fn = "partial_effect" /\ ~call.linear_scale
        \/ call.fn = "from_estimator" /\ call.transformation = "True" /\ call.residuals)
        => /\ result.y = inverse_link_vec(gam.link, LinkScaleBundle.y)
           /\ result.y_low = inverse_link_vec(gam.link, LinkScaleBundle.y_low)
           /\ result.y_high = inverse_link_vec(gam.link, LinkScaleBundle.y_high)
           /\ result.y_partial_residuals =
                PyArray(inverse_link_vec(gam.link, LinkScaleDisplay.y_partial_residuals.v))

(* C10: a result is returned only if every row's standard deviation is     *)
(* strictly positive, so a returned linear-scale result has                *)
(* y_low < y < y_high on every row.                                        *)
C10_StrictOnLinearScale ==
    (result.status = "ok" /\ AppliedMapping = "identity")
        => VecLt(result.y_low, result.y) /\ VecLt(result.y, result.y_high)

(***************************************************************************)
(* Properties of generate_X_grid (specification SpecGrid).                 *)
(***************************************************************************)
GridCallValid ==
    /\ call.fn = "generate_X_grid"
    /\ call.gam = "gam"
    /\ IsTerm(call.term)
    /\ call.term.fitted

(* C5: for a fitted term of a kind that is none of Intercept, Linear,      *)
(* Spline, Categorical and Tensor, generate_X_grid raises an               *)
(* invalid-argument error and returns nothing.                             *)
C5_UnsupportedKindRaises ==
    (/\ GridCallValid
     /\ call.term.kind \notin {"Intercept", "Linear", "Spline", "Categorical", "Tensor"})
        => result.status \in {"ValueError", "TypeError"}

IntervalCall == GridCallValid /\ call.term.kind \in {"Linear", "Spline"}

DataMin == VecMin(Column(call.X, call.term.feature + 1))
DataMax == VecMax(Column(call.X, call.term.feature + 1))
Offset == FMul(FSub(DataMax, DataMin), call.extrapolation)

(* num one-element rows from min - offset to max + offset, evenly spaced   *)
(* and increasing (all equal on a column of zero range).                   *)
PaddedEvenGrid ==
    LET grid == result.grid
        num == call.num
    IN /\ result.status = "ok"
       /\ result.kind = "array"
       /\ Len(grid) = num
       /\ \A i \in 1..num : Len(grid[i]) = 1
       /\ grid[1][1] = FSub(DataMin, Offset)
       /\ grid[num][1] = FAdd(DataMax, Offset)
       /\ \A i \in 1..(num - 2) :
            FSub(grid[i + 1][1], grid[i][1]) = FSub(grid[i + 2][1], grid[i + 1][1])
       /\ \A i \in 1..(num - 1) :
            IF DataMin = DataMax THEN grid[i + 1][1] = grid[i][1]
            ELSE FLt(grid[i][1], grid[i + 1][1])
       /\ FLe(grid[1][1], DataMin) /\ FLe(DataMax, grid[num][1])
       /\ call.extrapolation = F(0) => grid[1][1] = DataMin /\ grid[num][1] = DataMax

(* C7 as stated: for a fitted Linear or Spline term the grid is num        *)
(* one-element rows, evenly spaced and increasing from min - offset to     *)
(* max + offset, for every num.                                            *)
C7_PaddedEvenGridForEveryNum == IntervalCall => PaddedEvenGrid

(* C7 amended: for a fitted Linear or Spline term and num >= 2 the grid is *)
(* num one-element rows, evenly spaced and increasing from min - offset to *)
(* max + offset; for num = 1 it is the single row min - offset.            *)
C7_PaddedEvenGridFromTwoPoints ==
    IntervalCall =>
        IF call.num >= 2 THEN PaddedEvenGrid
        ELSE result.status = "ok" /\ result.grid = << <<FSub(DataMin, Offset)>> >>

(* The scenario: range [0, 10], extrapolation 0.1, num 5. *)
C7_Witness ==
    /\ IntervalCall
    /\ DataMin = F(0) /\ DataMax = F(10)
    /\ call.extrapolation = Q(1, 10)
    /\ call.num = 5
    /\ result.grid = IntMat(<< <<-1>>, <<2>>, <<5>>, <<8>>, <<11>> >>)

TensorCall == GridCallValid /\ call.term.kind = "Tensor"

RECURSIVE Power(_, _)
Power(b, e) == IF e = 0 THEN 1 ELSE b * Power(b, e - 1)

(* The axis of sub-term j: its feature column's padded grid. *)
Axis(j) ==
    LET col == Column(call.X, call.term.terms[j].feature + 1)
        offset == FMul(FSub(VecMax(col), VecMin(col)), call.extrapolation)
    IN linspace(FSub(VecMin(col), offset), FAdd(VecMax(col), offset), call.num)

(* The row of the combination idx in lexicographic order, the last axis    *)
(* varying fastest.                                                        *)
RECURSIVE LexPosition(_, _, _)
LexPosition(idx, j, num) ==
    IF j = 0 THEN 0 ELSE LexPosition(idx, j - 1, num) * num + (idx[j] - 1)

(* C8: for a Tensor of k sub-terms the cartesian grid has num^k rows, the  *)
(* combination idx of axis values at its lexicographic position (last      *)
(* axis fastest), and the meshgrid has k arrays with "ij" indexing over    *)
(* the same axes, each of length num.                                      *)
C8_CartesianAndMeshgrid ==
    TensorCall =>
        LET k == Len(call.term.terms)
            num == call.num
            combos == [1..k -> 1..num]
        IN /\ result.status = "ok"
           /\ result.kind = "tuple"
           /\ Len(result.grid) = Power(num, k)
           /\ \A idx \in combos :
                result.grid[LexPosition(idx, k, num) + 1] = [j \in 1..k |-> Axis(j)[idx[j]]]
           /\ Len(result.meshgrid) = k
           /\ \A j \in 1..k :
                /\ DOMAIN result.meshgrid[j] = combos
                /\ \A idx \in combos : result.meshgrid[j][idx] = Axis(j)[idx[j]]

(* A Tensor of two sub-terms on different features, three points each. *)
C8_Witness ==
    /\ TensorCall
    /\ Len(call.term.terms) = 2
    /\ call.term.terms[1].feature # call.term.terms[2].feature
    /\ call.num = 3
    /\ Len(result.grid) = 9
    /\ result.grid[2] # result.grid[4]

(***************************************************************************)
(* Properties of the interval computation (specification SpecVar).         *)
(***************************************************************************)
(* A symmetric 2 x 2 matrix is positive semi-definite iff its diagonal and *)
(* its determinant are non-negative.                                       *)
PositiveSemiDefinite(V) ==
    /\ FLe(F(0), V[1][1])
    /\ FLe(F(0), V[2][2])
    /\ FLe(FMul(V[1][2], V[2][1]), FMul(V[1][1], V[2][2]))

(* x V x^T written out term by term. *)
QuadraticForm(x, V) ==
    FSum([n \in 1..(Len(x) * Len(x)) |->
            LET i == ((n - 1) \div Len(x)) + 1
                j == ((n - 1) % Len(x)) + 1
            IN FMul(FMul(x[i], V[i][j]), x[j])])

(* C9: for a positive semi-definite V the fast row variance equals the     *)
(* diagonal of X V X^T entry by entry and is >= 0, and the half-width of   *)
(* a returned interval is standard_deviations * sqrt(variance).            *)
C9_FastVarianceIsDiagonal ==
    (call.fn = "interval" /\ PositiveSemiDefinite(call.V)) =>
        /\ Len(result.variance) = Len(call.X)
        /\ \A r \in 1..Len(call.X) :
            /\ result.variance[r] = QuadraticForm(call.X[r], call.V)
            /\ result.variance[r] = diag_XVXt(call.X, call.V)[r]
            /\ FLe(F(0), result.variance[r])
            /\ result.status = "ok" =>
                LET half == FMul(call.standard_deviations, FSqrt(result.variance[r]))
                IN /\ result.y_high[r] = FAdd(Predictions[r], half)
                   /\ result.y_low[r] = FSub(Predictions[r], half)

(* A positive semi-definite V with correlated coefficients and a returned  *)
(* interval.                                                               *)
C9_Witness ==
    /\ call.fn = "interval"
    /\ PositiveSemiDefinite(call.V)
    /\ call.V[1][2] # F(0)
    /\ call.X[1][1] # F(0) /\ call.X[1][2] # F(0)
    /\ result.status = "ok"
    /\ FLt(result.y_low[1], result.y_high[1])

=============================================================================
